---- MODULE Spec2Model ----
(***************************************************************************)
(* Model of admin_steroids/formatters.py (Python 2).                       *)
(*                                                                         *)
(* Text.  A Python string is a sequence of tokens.  In any text that an     *)
(* operation scans (a format template, a formatted number, a field value, *)
(* a name) every character is a token of its own, except that a run of    *)
(* letters is one token; literal markup that is only concatenated is kept *)
(* as one token per literal piece.  Concatenation '+' is \o.               *)
(*                                                                         *)
(* Values.  A Python value is a record [t, n, s, rel]: t the type,         *)
(*   t = "int"/"bool": n the integer; t = "float": n the value in quarters *)
(*   (n/4, exactly representable in binary, so '%.Nf' rounds it            *)
(*   half-to-even); t = "str": s the text; t = "manager": rel the ids of   *)
(*   the related records, n = 1 when its query raises.                     *)
(*                                                                         *)
(* An outcome of a call is [kind, val, exc]: kind "return" with the value  *)
(* returned, or kind "raise" with the exception's message.                 *)
(***************************************************************************)
EXTENDS Integers, Sequences, FiniteSets, TLC

\* ------------------------------------------------------------ bounds
MaxCalls == 3
MaxDecimals == 2
MaxRelated == 2

\* ------------------------------------------------------------ values
PyVal(t, n, s, rel) == [t |-> t, n |-> n, s |-> s, rel |-> rel]
PyNone == PyVal("NoneType", 0, <<>>, <<>>)
PyBool(b) == PyVal("bool", IF b THEN 1 ELSE 0, <<>>, <<>>)
PyInt(i) == PyVal("int", i, <<>>, <<>>)
PyFloat(q) == PyVal("float", q, <<>>, <<>>)
PyStr(s) == PyVal("str", 0, s, <<>>)
Manager(rel) == PyVal("manager", 0, <<>>, rel)
BrokenManager == PyVal("manager", 1, <<>>, <<>>)

Return(v) == [kind |-> "return", val |-> v, exc |-> <<>>]
Raise(msg) == [kind |-> "raise", val |-> PyNone, exc |-> msg]

IsNumber(v) == v.t \in {"int", "bool", "float"}
\* the value of a number in quarters
Quarters(v) == IF v.t = "float" THEN v.n ELSE 4 * v.n

\* ------------------------------------------------------------ text
Digit == <<"0", "1", "2", "3", "4", "5", "6", "7", "8", "9">>
IsDigit(c) == \E d \in 1..10 : Digit[d] = c
DigitVal(c) == (CHOOSE d \in 1..10 : Digit[d] = c) - 1

Abs(i) == IF i < 0 THEN -i ELSE i

RECURSIVE Pow10(_)
Pow10(k) == IF k = 0 THEN 1 ELSE 10 * Pow10(k - 1)

\* decimal digits of a natural number
RECURSIVE Digits(_)
Digits(n) == IF n < 10 THEN <<Digit[n + 1]>>
             ELSE Digits(n \div 10) \o <<Digit[(n % 10) + 1]>>

\* the last k digits of n, zero padded
RECURSIVE PadDigits(_, _)
PadDigits(n, k) == IF k = 0 THEN <<>>
                   ELSE PadDigits(n \div 10, k - 1) \o <<Digit[(n % 10) + 1]>>

\* '%d' % i for an integer i
IntStr(i) == (IF i < 0 THEN <<"-">> ELSE <<>>) \o Digits(Abs(i))

\* '%.<prec>f' % x for x = q/4: round half to even, sign kept.  The whole
\* part and the fraction are scaled apart, which keeps the numbers small.
FixedStr(q, prec) ==
  LET whole == Abs(q) \div 4
      num == (Abs(q) % 4) * Pow10(prec)
      fl  == num \div 4
      rem == num % 4
      odd == IF prec = 0 THEN whole % 2 = 1 ELSE fl % 2 = 1
      fr  == IF rem > 2 \/ (rem = 2 /\ odd) THEN fl + 1 ELSE fl
      r   == whole + (fr \div Pow10(prec))
  IN  (IF q < 0 THEN <<"-">> ELSE <<>>)
      \o Digits(r)
      \o (IF prec = 0 THEN <<>> ELSE <<".">> \o PadDigits(fr % Pow10(prec), prec))

\* str(x) for the float x = q/4
FloatStr(q) ==
  LET f == Abs(q) % 4
  IN  (IF q < 0 THEN <<"-">> ELSE <<>>)
      \o Digits(Abs(q) \div 4) \o <<".">>
      \o (CASE f = 0 -> <<"0">> [] f = 1 -> <<"2", "5">>
            [] f = 2 -> <<"5">> [] f = 3 -> <<"7", "5">>)

\* str(v)
Str(v) ==
  CASE v.t = "NoneType" -> <<"None">>
    [] v.t = "bool" -> IF v.n = 1 THEN <<"True">> ELSE <<"False">>
    [] v.t = "int" -> IntStr(v.n)
    [] v.t = "float" -> FloatStr(v.n)
    [] v.t = "str" -> v.s
    [] v.t = "manager" -> <<"<RelatedManager", " ", "object>">>

\* x truncated toward zero, for '%d' of a float
Trunc(q) == IF q < 0 THEN -((-q) \div 4) ELSE q \div 4

\* the precision digits starting at t[i]: [p, next] with t[next] the first non digit
RECURSIVE ParsePrec(_, _, _)
ParsePrec(t, i, acc) ==
  IF i <= Len(t) /\ IsDigit(t[i]) THEN ParsePrec(t, i + 1, 10 * acc + DigitVal(t[i]))
  ELSE [p |-> acc, next |-> i]

FmtOk(s) == [ok |-> TRUE, s |-> s, exc |-> <<>>]
FmtErr(msg) == [ok |-> FALSE, s |-> <<>>, exc |-> msg]
FmtCat(s, r) == IF r.ok THEN FmtOk(s \o r.s) ELSE r

\* template % args, from position i of the template and argument j
RECURSIVE Interp(_, _, _, _)
Interp(t, i, args, j) ==
  IF i > Len(t)
  THEN IF j > Len(args) THEN FmtOk(<<>>)
       ELSE FmtErr(<<"not all arguments converted during string formatting">>)
  ELSE IF t[i] # "%" THEN FmtCat(<<t[i]>>, Interp(t, i + 1, args, j))
  ELSE IF i = Len(t) THEN FmtErr(<<"incomplete format">>)
  ELSE IF t[i + 1] = "%" THEN FmtCat(<<"%">>, Interp(t, i + 2, args, j))
  ELSE IF j > Len(args) THEN FmtErr(<<"not enough arguments for format string">>)
  ELSE IF t[i + 1] = "s" THEN FmtCat(Str(args[j]), Interp(t, i + 2, args, j + 1))
  ELSE IF t[i + 1] = "d"
  THEN IF IsNumber(args[j])
       THEN FmtCat(IntStr(Trunc(Quarters(args[j]))), Interp(t, i + 2, args, j + 1))
       ELSE FmtErr(<<"%d format: a number is required">>)
  ELSE IF t[i + 1] = "."
  THEN LET pp == ParsePrec(t, i + 2, 0)
       IN  IF pp.next > Len(t) THEN FmtErr(<<"incomplete format">>)
           ELSE IF t[pp.next] # "f" THEN FmtErr(<<"unsupported format character">>)
           ELSE IF IsNumber(args[j])
           THEN FmtCat(FixedStr(Quarters(args[j]), pp.p),
                       Interp(t, pp.next + 1, args, j + 1))
           ELSE FmtErr(<<"float argument required">>)
  ELSE FmtErr(<<"unsupported format character">>)

\* the % operator of str
PyFormat(template, args) == Interp(template, 1, args, 1)

\* ------------------------------------------------------------ objects
\* None as the value of a string-or-None attribute (title_align, url_param)
None == "None"

NONE_STR == <<"(", "None", ")">>

\* settings.MEDIA_URL
MEDIA_URL == <<"/media/">>

ClassNames == {"DollarFormat", "PercentFormat", "CenterFormat", "NbspFormat",
               "BooleanFormat", "AdminOneToManyLink"}

\* the attributes the classes declare; a class inherits AdminFieldFormatter's
\* (align of a class that declares none is never read by its format)
ClassAttr(cls, a) ==
  CASE a = "title_align" ->
         (CASE cls = "DollarFormat" -> "right"
            [] cls = "CenterFormat" -> "center"
            [] OTHER -> None)
    [] a = "align" ->
         (CASE cls \in {"DollarFormat", "PercentFormat"} -> "right"
            [] cls = "CenterFormat" -> "center"
            [] cls = "BooleanFormat" -> "left"
            [] OTHER -> None)
    [] a = "object_level" -> (cls = "AdminOneToManyLink")
    [] a = "is_readonly" -> TRUE
    [] a = "null" -> FALSE
    [] a = "decimals" -> 2
    [] a = "commas" -> TRUE
    [] a = "template" -> <<"%", ".", "0", "f", "%", "%">>
    [] a = "yes_path" -> <<"%", "s", "admin/img/icon-yes.gif">>
    [] a = "no_path" -> <<"%", "s", "admin/img/icon-no.gif">>
    [] a = "url_param" -> None
    [] a = "id_param" -> "id"
    [] a = "target" -> "_blank"

\* self.<a>: the instance's __dict__ first, then the class
Attr(self, a) == IF a \in self.has THEN self.d[a] ELSE ClassAttr(self.cls, a)

\* the keyword arguments a caller may pass; an absent key keeps a fixed filler
KwKeys == {"align", "title_align", "null", "decimals", "commas", "url_param"}
KwFiller == [align |-> None, title_align |-> None, null |-> FALSE, decimals |-> 0,
             commas |-> FALSE, url_param |-> None, allow_tags |-> FALSE,
             admin_order_field |-> <<>>, name |-> <<>>, short_description |-> <<>>]
AllKwargs ==
  { [has |-> K, d |-> [KwFiller EXCEPT !.align = al, !.title_align = ta, !.null = nu,
                                       !.decimals = de, !.url_param = up]] :
      K \in SUBSET KwKeys,
      al \in {None, "left", "center"}, ta \in {None, "left"}, nu \in BOOLEAN,
      de \in 0..MaxDecimals, up \in {None, "admin:app_item_changelist"} }

\* in canonical form: a key is absent exactly when its value is the filler's, but
\* for decimals=0 and commas=False, which may be passed
Kwargs ==
  { kw \in AllKwargs :
      /\ ("align" \in kw.has) = (kw.d.align # None)
      /\ ("title_align" \in kw.has) = (kw.d.title_align # None)
      /\ ("null" \in kw.has) = kw.d.null
      /\ ("decimals" \notin kw.has) => (kw.d.decimals = 0)
      /\ ("url_param" \in kw.has) = (kw.d.url_param # None) }

Names == {<<"price">>, <<"order", "_", "items">>}

\* dict.setdefault and dict.get
SetDefault(kw, key, val) ==
  IF key \in kw.has THEN kw
  ELSE [has |-> kw.has \cup {key}, d |-> [kw.d EXCEPT ![key] = val]]
Get(kw, key, default) == IF key \in kw.has THEN kw.d[key] ELSE default

\* re.sub('[^0-9a-zA-Z]+', ' ', s): each run of non alphanumeric tokens becomes ' '
IsAlnum(c) == c \notin {"_", " ", "-", ".", "(", ")", "$", "%", ","}
RECURSIVE SubNonAlnum(_, _)
SubNonAlnum(s, inRun) ==
  IF s = <<>> THEN <<>>
  ELSE IF IsAlnum(Head(s)) THEN <<Head(s)>> \o SubNonAlnum(Tail(s), FALSE)
  ELSE (IF inRun THEN <<>> ELSE <<" ">>) \o SubNonAlnum(Tail(s), TRUE)

\* str.capitalize on the names in use (they are lower case)
Capitalize(s) ==
  IF s = <<>> THEN s
  ELSE <<CASE Head(s) = "price" -> "Price" [] Head(s) = "order" -> "Order"
           [] OTHER -> Head(s)>> \o Tail(s)

\* ------------------------------------------------------------ __init__
\* cls(name, **kwargs); title is not passed, so 'title or name' is name
__init__(cls, name, kwargs) ==
  LET sd == Get(kwargs, "short_description", name)
      k1 == SetDefault(kwargs, "allow_tags", TRUE)
      k2 == SetDefault(k1, "admin_order_field", name)
      k3 == SetDefault(k2, "title_align",
                       Get(k2, "align", Get(k2, "title_align", None)))
  IN  [cls |-> cls,
       has |-> {"name", "short_description"} \cup k3.has,
       d |-> [k3.d EXCEPT !.name = name,
                          !.short_description = Capitalize(SubNonAlnum(sd, FALSE))]]

\* ------------------------------------------------------------ format
\* 'display:inline-block; width:100%%; text-align:'+self.align+';'
Style(self) ==
  <<"display:inline-block; width:100", "%", "%", "; text-align:">>
    \o <<Attr(self, "align")>> \o <<";">>

\* '<span style="'+style+'">'+template+'</span>'
Span(style, template) == <<"<span style=\"">> \o style \o <<"\">">> \o template \o <<"</span>">>

\* the outcome of returning template % args
Formatted(r) == IF r.ok THEN Return(PyStr(r.s)) ELSE Raise(r.exc)

\* a slip: v <= 0 for the test of the sign
LessOrEqualZero(v) ==
  CASE v.t = "NoneType" -> TRUE
    [] IsNumber(v) -> Quarters(v) <= 0
    [] OTHER -> FALSE

\* v < 0 in Python 2: None is smaller than every number, every number smaller
\* than any other object
LessThanZero(v) ==
  CASE v.t = "NoneType" -> TRUE
    [] IsNumber(v) -> Quarters(v) < 0
    [] OTHER -> FALSE

\* v * k for a number v and an int k (a bool becomes an int)
Times(v, k) == IF v.t = "float" THEN PyFloat(v.n * k) ELSE PyInt(v.n * k)

\* utils._commafy: a comma before every group of three digits, from the right
RECURSIVE Commafy(_)
Commafy(ds) ==
  IF Len(ds) <= 3 THEN ds
  ELSE Commafy(SubSeq(ds, 1, Len(ds) - 3)) \o <<",">> \o SubSeq(ds, Len(ds) - 2, Len(ds))

\* the end of the run of digits that starts at s[i]
RECURSIVE RunEnd(_, _)
RunEnd(s, i) == IF i < Len(s) /\ IsDigit(s[i + 1]) THEN RunEnd(s, i + 1) ELSE i

\* utils.FormatWithCommas: format % (value,) with the first run of digits commafied
FormatWithCommas(format, value) ==
  LET r == PyFormat(format, <<value>>)
  IN  IF ~r.ok \/ ~\E i \in 1..Len(r.s) : IsDigit(r.s[i]) THEN r
      ELSE LET a == CHOOSE i \in 1..Len(r.s) :
                      IsDigit(r.s[i]) /\ \A j \in 1..(i - 1) : ~IsDigit(r.s[j])
               b == RunEnd(r.s, a)
           IN  FmtOk(SubSeq(r.s, 1, a - 1) \o Commafy(SubSeq(r.s, a, b))
                     \o SubSeq(r.s, b + 1, Len(r.s)))

DollarFormat_format(self, v) ==
  LET template == <<"$", "%", ".">> \o IntStr(Attr(self, "decimals")) \o <<"f">>
      neg == LessThanZero(v)
      v1 == IF neg /\ IsNumber(v) THEN Times(v, -1) ELSE v
      t1 == IF neg THEN <<"(">> \o template \o <<")">> ELSE template
      t2 == IF Attr(self, "commas") THEN FormatWithCommas(t1, v1)
            ELSE PyFormat(t1, <<v1>>)
  IN  IF neg /\ ~IsNumber(v)
      THEN Raise(<<"unsupported operand type(s) for *=">>)
      ELSE IF ~t2.ok THEN Raise(t2.exc)
      ELSE Return(PyStr(Span(Style(self), t2.s)))

\* s * k for a string s
Repeat(s, k) == [i \in 1..(k * Len(s)) |-> s[((i - 1) % Len(s)) + 1]]

PercentFormat_format(self, v) ==
  LET v1 == IF IsNumber(v) THEN Times(v, 100)
            ELSE IF v.t = "str" THEN PyStr(Repeat(v.s, 100)) ELSE v
      template == Span(Style(self), Attr(self, "template"))
  IN  IF v.t \in {"NoneType", "manager"}
      THEN Raise(<<"unsupported operand type(s) for *=">>)
      ELSE Formatted(PyFormat(template, <<v1>>))

CenterFormat_format(self, v) ==
  LET template == Span(Style(self), <<"%", "s">>)
  IN  Formatted(PyFormat(template, <<v>>))

\* s.replace(' ', '&nbsp;')
RECURSIVE ReplaceSpaces(_)
ReplaceSpaces(s) ==
  IF s = <<>> THEN <<>>
  ELSE <<IF Head(s) = " " THEN "&nbsp;" ELSE Head(s)>> \o ReplaceSpaces(Tail(s))

NbspFormat_format(self, v) == Return(PyStr(ReplaceSpaces(Str(v))))

\* a slip: v is not None for bool(v)
IsNotNone(v) == v.t # "NoneType"

\* bool(v)
Truthy(v) ==
  CASE v.t = "NoneType" -> FALSE
    [] IsNumber(v) -> v.n # 0
    [] v.t = "str" -> v.s # <<>>
    [] v.t = "manager" -> TRUE

BooleanFormat_format(self, v) ==
  LET b == Truthy(v)
      template == Span(Style(self),
                       <<"<img src=\"", "%", "s", "\" alt=\"", "%", "s",
                         "\" title=\"", "%", "s", "\" />">>)
      path == IF b THEN Attr(self, "yes_path") ELSE Attr(self, "no_path")
      url == PyFormat(path, <<PyStr(MEDIA_URL)>>)
  IN  IF ~url.ok THEN Raise(url.exc)
      ELSE Formatted(PyFormat(template, <<PyStr(url.s), PyBool(b), PyBool(b)>>))

\* ------------------------------------------------------------ records
\* a record of the application: its primary key, and the one attribute it has
\* besides (a plain field or the manager of a reverse relation)
FieldValues ==
  {PyNone, PyBool(TRUE), PyBool(FALSE), PyInt(0), PyInt(1), PyInt(5), PyInt(-1234567),
   PyFloat(0), PyFloat(-1), PyFloat(2), PyFloat(6), PyFloat(4939), PyFloat(-4939),
   PyFloat(4000002), PyStr(<<>>), PyStr(<<"a", " ", "b">>), PyStr(NONE_STR),
   BrokenManager}
  \cup { Manager([i \in 1..k |-> 6 + i]) : k \in 0..MaxRelated }
Records == [id : {3}, field : {<<"price">>}, val : FieldValues]

\* getattr(obj, name)
GetAttr(obj, name) ==
  IF obj.field = name THEN [ok |-> TRUE, v |-> obj.val, exc |-> <<>>]
  ELSE [ok |-> FALSE, v |-> PyNone, exc |-> <<"object has no attribute">>]

\* urlresolvers.reverse(viewname)
Reverse(viewname) ==
  IF viewname = "admin:app_item_changelist" THEN FmtOk(<<"/admin/app/item/">>)
  ELSE FmtErr(<<"Reverse for '">> \o <<viewname>> \o <<"' not found.">>)

\* utils.get_admin_change_url(obj), for the related record with primary key id
get_admin_change_url(id) == <<"/admin/app/related/">> \o IntStr(id) \o <<"/">>

\* hasattr(q, 'count'): str.count and the manager's count()
HasCount(q) == q.t \in {"str", "manager"}

\* a slip: only count is None
OnlyNone(count) == count.t = "NoneType"

\* count is None or count == 0
NoneOrZero(count) == count.t = "NoneType" \/ (IsNumber(count) /\ count.n = 0)

\* the body of the try block of AdminOneToManyLink.format
AdminOneToManyLink_try(self, obj) ==
  LET rv == Reverse(Attr(self, "url_param"))
      url0 == rv.s \o <<"?", Attr(self, "id_param"), "=">> \o IntStr(obj.id)
      ga == GetAttr(obj, Attr(self, "name"))
      q == ga.v
      count == IF HasCount(q) THEN PyInt(Len(q.rel)) ELSE q
      url == IF HasCount(q) /\ count.n = 1 THEN get_admin_change_url(q.rel[1]) ELSE url0
  IN  IF ~rv.ok THEN Raise(rv.exc)
      ELSE IF ~ga.ok THEN Raise(ga.exc)
      ELSE IF q.t = "str" THEN Raise(<<"'str' object has no attribute 'all'">>)
      ELSE IF q.t = "manager" /\ q.n = 1 THEN Raise(<<"database error">>)
      ELSE IF NoneOrZero(count) THEN Return(count)
      ELSE Formatted(PyFormat(
             <<"<a href=\"", "%", "s", "\" target=\"", "%", "s",
               "\"><input type=\"button\" value=\"View ", "%", "d", "\" /></a>">>,
             <<PyStr(url), PyStr(<<Attr(self, "target")>>), count>>))

\* a slip: the try block without its except clause
AdminOneToManyLink_unguarded(self, obj) == AdminOneToManyLink_try(self, obj)

\* except Exception, e: return str(e)
AdminOneToManyLink_format(self, obj) ==
  LET r == AdminOneToManyLink_try(self, obj)
  IN  IF r.kind = "raise" THEN Return(PyStr(r.exc)) ELSE r

\* self.format(v), dispatched on the class of self
Format(self, v) ==
  CASE self.cls = "DollarFormat" -> DollarFormat_format(self, v)
    [] self.cls = "PercentFormat" -> PercentFormat_format(self, v)
    [] self.cls = "CenterFormat" -> CenterFormat_format(self, v)
    [] self.cls = "NbspFormat" -> NbspFormat_format(self, v)
    [] self.cls = "BooleanFormat" -> BooleanFormat_format(self, v)
    [] self.cls = "AdminOneToManyLink" -> AdminOneToManyLink_format(self, v)

\* v is None, for v a value or (object_level) a record
IsNone(v) == "t" \in DOMAIN v /\ v.t = "NoneType"

\* the v of __call__: the record itself or its attribute
Lookup(self, obj) ==
  IF Attr(self, "object_level") THEN [ok |-> TRUE, v |-> obj, exc |-> <<>>]
  ELSE GetAttr(obj, Attr(self, "name"))

\* a slip: the sign flip of DollarFormat stored back into the record
CallStoringBack(self, obj) ==
  LET l == Lookup(self, obj)
      flip == /\ self.cls = "DollarFormat" /\ l.ok /\ IsNumber(l.v) /\ LessThanZero(l.v)
      eff(out, called) == [out |-> out, format_called |-> called, arg |-> l.v,
                           self |-> self,
                           obj |-> IF flip THEN [obj EXCEPT !.val = Times(l.v, -1)] ELSE obj]
  IN  IF ~l.ok THEN eff(Raise(l.exc), FALSE)
      ELSE IF IsNone(l.v) /\ Attr(self, "null") THEN eff(Return(PyStr(NONE_STR)), FALSE)
      ELSE eff(Format(self, l.v), TRUE)

\* a slip: v is None or self.null
CallNoneOrNull(self, obj) ==
  LET l == Lookup(self, obj)
      eff(out, called) == [out |-> out, format_called |-> called, arg |-> l.v,
                           self |-> self, obj |-> obj]
  IN  IF ~l.ok THEN eff(Raise(l.exc), FALSE)
      ELSE IF IsNone(l.v) \/ Attr(self, "null") THEN eff(Return(PyStr(NONE_STR)), FALSE)
      ELSE eff(Format(self, l.v), TRUE)

\* self(obj).  out: the outcome; format_called, arg: whether self.format was
\* invoked, and on what; self, obj: the formatter and the record as the call
\* leaves them (only the local v is ever assigned)
__call__(self, obj) ==
  LET l == Lookup(self, obj)
      eff(out, called) == [out |-> out, format_called |-> called, arg |-> l.v,
                           self |-> self, obj |-> obj]
  IN  IF ~l.ok THEN eff(Raise(l.exc), FALSE)
      ELSE IF IsNone(l.v) /\ Attr(self, "null") THEN eff(Return(PyStr(NONE_STR)), FALSE)
      ELSE eff(Format(self, l.v), TRUE)

\* ------------------------------------------------------------ state machine
VARIABLES
  fmt,            \* the formatter, once constructed
  kwargs,         \* the keyword arguments it was constructed with
  rec,            \* the record of the row being rendered
  phase,          \* "new" before the formatter is constructed, "ready" after
  calls,          \* how many times the formatter was called
  result,         \* the outcome of the last call
  format_called,  \* whether the last call invoked self.format
  arg,            \* the argument of self.format in the last call
  first           \* the outcome of the first call

vars == <<fmt, kwargs, rec, phase, calls, result, format_called, arg, first>>

NoKwargs == [has |-> {}, d |-> KwFiller]
NoFormatter == [cls |-> "none", has |-> {}, d |-> KwFiller]
NoResult == [kind |-> "none", val |-> PyNone, exc |-> <<>>]

Init ==
  /\ fmt = NoFormatter
  /\ kwargs = NoKwargs
  /\ rec \in Records
  /\ phase = "new"
  /\ calls = 0
  /\ result = NoResult
  /\ format_called = FALSE
  /\ arg = PyNone
  /\ first = NoResult

\* formatter = cls(name, **kw)
New ==
  /\ phase = "new"
  /\ \E cls \in ClassNames, name \in Names, kw \in Kwargs :
       /\ fmt' = __init__(cls, name, kw)
       /\ kwargs' = kw
  /\ phase' = "ready"
  /\ UNCHANGED <<rec, calls, result, format_called, arg, first>>

\* formatter(rec)
Call ==
  /\ phase = "ready"
  /\ calls < MaxCalls
  /\ LET c == __call__(fmt, rec)
     IN  /\ result' = c.out
         /\ format_called' = c.format_called
         /\ arg' = c.arg
         /\ fmt' = c.self
         /\ rec' = c.obj
         /\ first' = IF calls = 0 THEN c.out ELSE first
  /\ calls' = calls + 1
  /\ UNCHANGED <<kwargs, phase>>

Next == New \/ Call

Spec == Init /\ [][Next]_vars

\* ------------------------------------------------------------ properties
Called == phase = "ready" /\ calls > 0
IsString(o) == o.kind = "return" /\ o.val.t = "str"
Count(s, tok) == Cardinality({i \in 1..Len(s) : s[i] = tok})
StripCommas(s) == SelectSeq(s, LAMBDA c : c # ",")
StartsWith(s, prefix) == Len(s) >= Len(prefix) /\ SubSeq(s, 1, Len(prefix)) = prefix
Found(obj, self) == Attr(self, "object_level") \/ obj.field = Attr(self, "name")

\* C1: every call of a formatter that returns, returns a string, never None or
\* a number, also when AdminOneToManyLink finds a related count of 0 or None.
C1_ReturnsString == (Called /\ result.kind = "return") => result.val.t = "str"

\* C2 as stated: no error raised while a formatter computes its output
\* propagates; the call returns.
C2_AllErrorsSwallowed == Called => result.kind = "return"

\* C2 as amended: only AdminOneToManyLink.format swallows errors.  Whatever its
\* try block raises, format returns the error's str(); a failed attribute
\* lookup in __call__ and an error in the format of another class propagate.
C2_OnlyLinkSwallows ==
  Called =>
    /\ fmt.cls = "AdminOneToManyLink" =>
         /\ result.kind = "return"
         /\ LET r == AdminOneToManyLink_try(fmt, rec)
            IN  r.kind = "raise" => result = Return(PyStr(r.exc))
    /\ (fmt.cls # "AdminOneToManyLink" /\ ~Found(rec, fmt)) => result.kind = "raise"
    /\ (fmt.cls \in {"DollarFormat", "PercentFormat"} /\ Found(rec, fmt)
          /\ rec.val.t \in {"str", "manager"}) => result.kind = "raise"

\* the related-record query failed and the link formatter returned the message
C2_Witness ==
  /\ Called /\ fmt.cls = "AdminOneToManyLink" /\ rec.val = BrokenManager
  /\ Attr(fmt, "url_param") # None /\ rec.field = Attr(fmt, "name")
  /\ result = Return(PyStr(<<"database error">>))

Aligned == {"DollarFormat", "PercentFormat", "CenterFormat", "BooleanFormat"}
C4_SingleSpan ==
  (Called /\ fmt.cls \in Aligned /\ format_called /\ IsString(result)) =>
    LET s == result.val.s
        align == Attr(fmt, "align")
    IN  /\ StartsWith(s, <<"<span style=\"", "display:inline-block; width:100", "%",
                           "; text-align:", align, ";", "\">">>)
        /\ s[Len(s)] = "</span>"
        /\ Count(s, "<span style=\"") = 1 /\ Count(s, "</span>") = 1
        /\ "align" \notin kwargs.has =>
             align = (CASE fmt.cls \in {"DollarFormat", "PercentFormat"} -> "right"
                        [] fmt.cls = "CenterFormat" -> "center"
                        [] fmt.cls = "BooleanFormat" -> "left")

\* C5: BooleanFormat renders the yes icon for every truthy value and the no
\* icon for every falsy one (None included when null is False), under
\* MEDIA_URL, with alt and title 'True' resp. 'False', and never both icons.
Falsy == {PyNone, PyBool(FALSE), PyInt(0), PyFloat(0), PyStr(<<>>)}
C5_BooleanIcons ==
  (Called /\ fmt.cls = "BooleanFormat" /\ Found(rec, fmt)) =>
    /\ (rec.val = PyNone /\ ~Attr(fmt, "null")) => format_called
    /\ format_called =>
         /\ IsString(result)
         /\ LET s == result.val.s
                yes == "admin/img/icon-yes.gif"
                no == "admin/img/icon-no.gif"
                icon == IF rec.val \in Falsy THEN no ELSE yes
                word == IF rec.val \in Falsy THEN "False" ELSE "True"
                img == <<"<img src=\"">> \o MEDIA_URL
                         \o <<icon, "\" alt=\"", word, "\" title=\"", word, "\" />">>
            IN  /\ Count(s, icon) = 1
                /\ Count(s, yes) + Count(s, no) = 1
                /\ \E i \in 1..(Len(s) - Len(img) + 1) : SubSeq(s, i, i + Len(img) - 1) = img

\* a None value, null left False: the no icon
C5_Witness ==
  /\ Called /\ fmt.cls = "BooleanFormat" /\ Found(rec, fmt) /\ rec.val = PyNone
  /\ ~Attr(fmt, "null") /\ IsString(result)
  /\ Count(result.val.s, "admin/img/icon-no.gif") = 1

\* C6: AdminOneToManyLink.format receives the record itself.  With one related
\* record the href is that record's admin change URL; with two or more it is
\* reverse(url_param) + '?' + id_param + '=' + the record's id; an attribute
\* without a count method is its own count, with the list URL; the label is
\* 'View <count>'; a link is rendered only when count is neither None nor 0.
LinkHtml(href, target, label) ==
  <<"<a href=\"">> \o href \o <<"\" target=\"", target,
    "\"><input type=\"button\" value=\"View ">> \o label \o <<"\" /></a>">>
C6_LinkTarget ==
  (Called /\ fmt.cls = "AdminOneToManyLink") =>
    /\ format_called /\ arg = rec
    /\ (IsString(result) /\ Count(result.val.s, "<a href=\"") > 0) =>
         /\ rec.val.t = "manager" => Len(rec.val.rel) > 0
         /\ rec.val \notin {PyNone, PyInt(0), PyFloat(0), PyBool(FALSE)}
    /\ (Attr(fmt, "url_param") = "admin:app_item_changelist"
          /\ rec.field = Attr(fmt, "name")) =>
         LET v == rec.val
             target == Attr(fmt, "target")
             list == <<"/admin/app/item/", "?", Attr(fmt, "id_param"), "=">> \o IntStr(rec.id)
             n == Len(v.rel)
         IN  /\ (v.t = "manager" /\ v.n = 0 /\ n = 1) =>
                  result = Return(PyStr(LinkHtml(get_admin_change_url(v.rel[1]),
                                                 target, <<"1">>)))
             /\ (v.t = "manager" /\ v.n = 0 /\ n >= 2) =>
                  result = Return(PyStr(LinkHtml(list, target, IntStr(n))))
             /\ (v.t = "manager" /\ v.n = 0 /\ n = 0) => result = Return(PyInt(0))
             /\ (v.t = "int" /\ v.n # 0) =>
                  result = Return(PyStr(LinkHtml(list, target, IntStr(v.n))))
             /\ (v.t \in {"bool", "float"} /\ v.n # 0) =>
                  /\ IsString(result)
                  /\ StartsWith(result.val.s, <<"<a href=\"">> \o list)
             /\ (v.t = "NoneType" \/ (IsNumber(v) /\ v.n = 0)) => result = Return(v)

\* a single related record: the link goes to its change page
C6_Witness ==
  /\ Called /\ fmt.cls = "AdminOneToManyLink" /\ rec.field = Attr(fmt, "name")
  /\ rec.val.t = "manager" /\ Len(rec.val.rel) = 1
  /\ IsString(result) /\ StartsWith(result.val.s, <<"<a href=\"", "/admin/app/related/">>)

\* C7: DollarFormat shows a number with exactly `decimals` digits after the
\* point; a negative v as its magnitude in parentheses, '($...)', without a
\* minus sign; v >= 0 as '$...' without parentheses; commas only adds the
\* thousands separators.
DollarBody(s) ==
  LET a == CHOOSE i \in 1..Len(s) : s[i] = "\">"
  IN  SubSeq(s, a + 1, Len(s) - 1)
DigitsAfterPoint(b) ==
  IF Count(b, ".") = 0 THEN 0
  ELSE LET p == CHOOSE i \in 1..Len(b) : b[i] = "."
       IN  Cardinality({i \in (p + 1)..Len(b) : IsDigit(b[i])})
\* every comma has a digit before it and exactly three digits after it, and
\* no four digits stand in a row before the point
Grouped(b) ==
  LET end == IF Count(b, ".") = 0 THEN Len(b) + 1 ELSE CHOOSE i \in 1..Len(b) : b[i] = "."
  IN  /\ \A i \in 1..Len(b) : b[i] = "," =>
           /\ i > 1 /\ IsDigit(b[i - 1]) /\ i + 3 < end
           /\ \A k \in 1..3 : IsDigit(b[i + k])
           /\ (i + 4 <= Len(b) => ~IsDigit(b[i + 4]))
      /\ \A i \in 1..(end - 4) : ~\A k \in 0..3 : IsDigit(b[i + k])
C8_NonePlaceholder ==
  (Called /\ Found(rec, fmt)) =>
    LET ol == Attr(fmt, "object_level")
        v == IF ol THEN rec ELSE rec.val
        placeholder == ~ol /\ v = PyNone /\ Attr(fmt, "null")
    IN  /\ (result = Return(PyStr(NONE_STR)) /\ ~format_called) <=> placeholder
        /\ ~placeholder => (format_called /\ arg = v /\ result = Format(fmt, v))

\* null is true, the value is None: the placeholder
C8_Witness ==
  /\ Called /\ Found(rec, fmt) /\ ~Attr(fmt, "object_level")
  /\ rec.val = PyNone /\ Attr(fmt, "null")
  /\ result = Return(PyStr(NONE_STR)) /\ ~format_called

\* C9: without align and title_align the formatter keeps its class's
\* title_align ('right' for DollarFormat, 'center' for CenterFormat); with
\* align alone title_align is align; a title_align passed always wins.
C9_TitleAlign ==
  phase = "ready" =>
    LET ta == Attr(fmt, "title_align")
    IN  /\ "title_align" \in kwargs.has => ta = kwargs.d.title_align
        /\ ("title_align" \notin kwargs.has /\ "align" \in kwargs.has) =>
             ta = kwargs.d.align
        /\ ("title_align" \notin kwargs.has /\ "align" \notin kwargs.has) =>
             /\ fmt.cls = "DollarFormat" => ta = "right"
             /\ fmt.cls = "CenterFormat" => ta = "center"

====
